---- MODULE Spec2Model ----
(***************************************************************************)
(* Ski-lift CRUD API over one DynamoDB table keyed (Lift, Metadata) with   *)
(* the secondary index SkiLiftsByRiders.  The model follows the HTTP       *)
(* routes (routes/skilift.routes.ts), the zod schemas                      *)
(* (schemas/skilift.schemas.ts), the service (services/skilift.service.ts) *)
(* and the error helpers (utils/error-handler.ts).  The table itself is    *)
(* the external store: each command the service sends is modelled by the   *)
(* documented DynamoDB semantics of that command, read strongly            *)
(* consistent.                                                             *)
(***************************************************************************)
EXTENDS Integers, Sequences, FiniteSets, TLC

VARIABLES
    store,      \* the table: a function from the keys <<Lift, Metadata>> that hold an item to the item
    last,       \* the last request handled by a route, its response and the error its handler caught
    lastWrite,  \* per key: the last write command the store accepted for it
    walk,       \* a client paging through GET /api/skilifts with the returned cursors
    nreq,       \* number of requests handled so far
    pending     \* per client with a request under way: the request and where its handler stands

vars == <<store, last, lastWrite, walk, nreq, pending>>

----------------------------------------------------------------------------
(* Bounds of the model and sample values of the requests.                  *)

MaxRequests == 3
MaxPageLimit == 2

STATIC == "Static Data"
RESORT == "Resort Data"

LiftNames == {"Lift 1", RESORT}
Dates == {"01/01/20", "01/02/20"}
MetadataValues == Dates \cup {STATIC}
Keys == LiftNames \X MetadataValues

NoRec == [a \in {} |-> TRUE]

Restrict(f, S) == [a \in (DOMAIN f) \cap S |-> f[a]]

StaticFields == {"ExperiencedRidersOnly", "VerticalFeet", "LiftTime"}
DynamicFields == {"TotalUniqueLiftRiders", "AverageSnowCoverageInches", "LiftStatus", "AvalancheDanger"}
ResortFields == {"TotalUniqueLiftRiders", "AverageSnowCoverageInches", "AvalancheDanger", "OpenLifts"}

StaticA == [ExperiencedRidersOnly |-> FALSE, VerticalFeet |-> 2500, LiftTime |-> "8:00"]
StaticB == [ExperiencedRidersOnly |-> TRUE, VerticalFeet |-> 3200, LiftTime |-> "10:30"]
DynamicA == [TotalUniqueLiftRiders |-> 1, AverageSnowCoverageInches |-> 48,
             LiftStatus |-> "Open", AvalancheDanger |-> "Low"]
DynamicB == [TotalUniqueLiftRiders |-> 0, AverageSnowCoverageInches |-> 0,
             LiftStatus |-> "Closed", AvalancheDanger |-> "High"]
ResortA == [TotalUniqueLiftRiders |-> 2, AverageSnowCoverageInches |-> 42,
            AvalancheDanger |-> "Moderate", OpenLifts |-> <<1, 2>>]

----------------------------------------------------------------------------
(* The store: DynamoDB commands on the table.                              *)

KeyOf(item) == <<item.Lift, item.Metadata>>

\* Mutant: the put merges the item into the one the key holds.
PutCommandMerges(s, item) ==
    [k \in (DOMAIN s) \cup {KeyOf(item)} |->
        IF k = KeyOf(item) THEN (IF k \in DOMAIN s THEN item @@ s[k] ELSE item) ELSE s[k]]

\* PutItem without a condition: the item replaces whatever the key held.
PutCommand(s, item) ==
    [k \in (DOMAIN s) \cup {KeyOf(item)} |-> IF k = KeyOf(item) THEN item ELSE s[k]]

\* GetItem: the result carries Item only when the key holds one.
GetCommand(s, key) ==
    IF key \in DOMAIN s THEN [Item |-> s[key]] ELSE NoRec

\* UpdateItem with "SET a = :a, ..." and no condition: the attributes named are
\* written, the others kept; a key that holds no item gets a new item made of the
\* key and the attributes set.  ReturnValues ALL_NEW: the item after the update.
\* Mutant: the update replaces the item by the key and the attributes set.
UpdateCommandReplaces(s, key, sets) ==
    [Lift |-> key[1], Metadata |-> key[2]] @@ sets

UpdateCommand(s, key, sets) ==
    LET base == IF key \in DOMAIN s THEN s[key]
                ELSE [Lift |-> key[1], Metadata |-> key[2]]
    IN [a \in (DOMAIN base) \cup (DOMAIN sets) |->
            IF a \in DOMAIN sets THEN sets[a] ELSE base[a]]

\* The table after UpdateItem: the key holds the item after the update.
UpdatedTable(s, key, item) ==
    [k \in (DOMAIN s) \cup {key} |-> IF k = key THEN item ELSE s[k]]

\* Mutant: the delete leaves the table as it is.
DeleteCommandKeeps(s, key) == s

\* DeleteItem without a condition: succeeds whether or not the key holds an item.
DeleteCommand(s, key) == [k \in (DOMAIN s) \ {key} |-> s[k]]

\* Position of x in the sequence seq.
Pos(seq, x) == CHOOSE i \in 1..Len(seq) : seq[i] = x

Min(a, b) == IF a <= b THEN a ELSE b

\* The order a Scan walks the table in: partition after partition (the order of
\* the partitions is the store's hash order, fixed here), and inside a partition
\* ascending sort key in UTF-8 byte order: the digits of a date (0x30..0x39)
\* come before the "S" (0x53) of "Static Data".
PartitionOrder == <<"Lift 1", RESORT>>
SortKeyOrder == <<"01/01/20", "01/02/20", STATIC>>
KeyRank(k) == (Pos(PartitionOrder, k[1]) - 1) * Len(SortKeyOrder) + Pos(SortKeyOrder, k[2])
TableOrder == [i \in 1..Cardinality(Keys) |-> CHOOSE k \in Keys : KeyRank(k) = i]

KeyRecord(k) == [Lift |-> k[1], Metadata |-> k[2]]

\* One page of a query or scan: at most limit of the keys left, in order; the
\* key of the last one as LastEvaluatedKey when keys remain after the page, and,
\* when the page ends exactly at the last key, with or without it (atEnd): a
\* LastEvaluatedKey does not mean that more items exist.
Page(left, project, limit, atEnd) ==
    LET n == Min(limit, Len(left))
        items == [i \in 1..n |-> project[left[i]]]
        cut == n > 0 /\ (Len(left) > limit \/ (Len(left) = limit /\ atEnd))
    IN IF cut
       THEN [Items |-> items, Count |-> n, LastEvaluatedKey |-> KeyRecord(left[n])]
       ELSE [Items |-> items, Count |-> n]

\* Scan with Limit and an optional ExclusiveStartKey (NoRec: from the beginning).
ScanCommand(s, limit, start, atEnd) ==
    LET Left(k) == k \in DOMAIN s /\ (DOMAIN start = {} \/ KeyRank(k) > KeyRank(KeyOf(start)))
    IN Page(SelectSeq(TableOrder, Left), s, limit, atEnd)

\* Mutant: the query reads the partition in descending order of the sort key.
QueryCommandBackward(s, lift, limit, atEnd) ==
    LET InLift(k) == k \in DOMAIN s /\ k[1] = lift
        left == SelectSeq(TableOrder, InLift)
    IN Page([i \in 1..Len(left) |-> left[Len(left) + 1 - i]], s, limit, atEnd)

\* Query on the table with "Lift = :lift" and a Limit: the items of the partition
\* in ascending order of the sort key, from the beginning.
QueryCommand(s, lift, limit, atEnd) ==
    LET InLift(k) == k \in DOMAIN s /\ k[1] = lift
    IN Page(SelectSeq(TableOrder, InLift), s, limit, atEnd)

\* A number of a query string is an integer n, written [limit |-> n], or n + 1/2,
\* written [limit |-> n, half |-> TRUE].  The store takes an integer of at least
\* 1 as Limit and rejects a command carrying anything else.
Whole(x) == "half" \notin DOMAIN x
LimitRejected == [class |-> "ValidationException", message |-> <<"Invalid Limit">>,
                  stack |-> "ValidationException"]
LimitAccepted(x) == Whole(x) /\ x.limit >= 1

\* The index SkiLiftsByRiders: hash key Lift, range key TotalUniqueLiftRiders,
\* projection INCLUDE Metadata.  An item is in the index when it carries
\* TotalUniqueLiftRiders; an entry holds the index key, the table key and Metadata.
GSI_ATTRIBUTES == {"Lift", "TotalUniqueLiftRiders", "Metadata"}
IndexKeys(s, lift) == {k \in DOMAIN s : k[1] = lift /\ "TotalUniqueLiftRiders" \in DOMAIN s[k]}

\* ScanIndexForward of the query by riders.
ScanIndexForwardTrue == TRUE
ScanIndexForward == FALSE

\* The orders the index can hand out the entries of a lift in: by rider count,
\* ascending or descending as asked; entries with equal counts in any order.
IndexOrders(s, lift, forward) ==
    LET K == IndexKeys(s, lift)
        n == Cardinality(K)
        R(k) == s[k].TotalUniqueLiftRiders
    IN {o \in [1..n -> K] :
            /\ \A i, j \in 1..n : i # j => o[i] # o[j]
            /\ \A i \in 1..n, j \in 1..n :
                    i < j => IF forward THEN R(o[i]) <= R(o[j]) ELSE R(o[i]) >= R(o[j])}

\* Query on the index: the entries of the order that satisfy the key condition,
\* at most Limit of them.  cond is "between", "ge", "le" or "none".
QueryIndexCommand(s, order, cond, lo, hi, limit, atEnd) ==
    LET R(k) == s[k].TotalUniqueLiftRiders
        Match(k) == CASE cond = "between" -> lo <= R(k) /\ R(k) <= hi
                      [] cond = "ge" -> R(k) >= lo
                      [] cond = "le" -> R(k) <= hi
                      [] OTHER -> TRUE
        Entry == [k \in DOMAIN s |-> Restrict(s[k], GSI_ATTRIBUTES)]
    IN Page(SelectSeq(order, Match), Entry, limit, atEnd)

\* A BETWEEN whose lower bound exceeds its upper bound is rejected by the store.
BetweenRejected == [class |-> "ValidationException", message |-> <<"Invalid KeyConditionExpression">>,
                    stack |-> "ValidationException"]

----------------------------------------------------------------------------
(* Errors (utils/error-handler.ts).                                        *)

AppErrorClasses == {"AppError", "NotFoundError", "ValidationError", "DynamoDBError"}

\* A message is the sequence of the parts the code concatenates.
NotFoundError(message) ==
    [class |-> "NotFoundError", message |-> message, statusCode |-> 404, code |-> "NOT_FOUND",
     stack |-> "NotFoundError"]

\* Mutant: the message of the original error is appended to the message.
DynamoDBErrorAppendsMessage(message, originalError) ==
    [class |-> "DynamoDBError",
     message |-> IF DOMAIN originalError = {} THEN message ELSE message \o originalError.message,
     statusCode |-> 500, code |-> "DYNAMODB_ERROR",
     stack |-> IF DOMAIN originalError = {} THEN "DynamoDBError" ELSE originalError.stack]

\* The original error only replaces the stack of the new error.
DynamoDBError(message, originalError) ==
    [class |-> "DynamoDBError", message |-> message, statusCode |-> 500, code |-> "DYNAMODB_ERROR",
     stack |-> IF DOMAIN originalError = {} THEN "DynamoDBError" ELSE originalError.stack]

ZodError(issue) == [class |-> "ZodError", message |-> issue, stack |-> "ZodError"]

formatErrorResponse(error) ==
    IF error.class \in AppErrorClasses
    THEN [error |-> [message |-> error.message, code |-> error.code, statusCode |-> error.statusCode]]
    ELSE IF error.class = "ZodError"
    THEN [error |-> [message |-> "Validation failed", code |-> "VALIDATION_ERROR",
                     statusCode |-> 400, details |-> error]]
    ELSE [error |-> [message |-> error.message, code |-> "INTERNAL_ERROR", statusCode |-> 500]]

\* Errors the store client can reject a command with; NoRec is a command that succeeds.
StoreErrors ==
    {[class |-> "InternalServerError", message |-> <<"Database error">>, stack |-> "InternalServerError"],
     [class |-> "ResourceNotFoundException", message |-> <<"Item not found">>,
      stack |-> "ResourceNotFoundException"]}
StoreOutcomes == {NoRec} \cup StoreErrors

----------------------------------------------------------------------------
(* Validation schemas (schemas/skilift.schemas.ts).  A schema applied to a  *)
(* request value gives [ok, data]: z.object keeps the declared keys only,   *)
(* and parse throws a ZodError when ok is FALSE.                            *)

\* Strings of the model that match /^\d{1,2}:\d{2}$/ and /^\d{2}\/\d{2}\/\d{2}$/.
LiftTimeRegex(s) == s \in {"8:00", "10:30", "25:99"}
DateRegex(s) == s \in Dates

LiftStatusEnum == {"Open", "Closed", "Pending"}
AvalancheDangerEnum == {"Low", "Moderate", "Considerable", "High", "Extreme"}

Parsed(ok, data) == [ok |-> ok, data |-> data]

createStaticDataSchema(body) ==
    Parsed(/\ ({"Lift"} \cup StaticFields) \subseteq DOMAIN body
           /\ body.Lift # ""
           /\ body.ExperiencedRidersOnly \in BOOLEAN
           /\ body.VerticalFeet > 0
           /\ LiftTimeRegex(body.LiftTime),
           Restrict(body, {"Lift"} \cup StaticFields))

createDynamicDataSchema(body) ==
    Parsed(/\ ({"Lift", "Metadata"} \cup DynamicFields) \subseteq DOMAIN body
           /\ body.Lift # ""
           /\ DateRegex(body.Metadata)
           /\ body.TotalUniqueLiftRiders >= 0
           /\ body.AverageSnowCoverageInches >= 0
           /\ body.LiftStatus \in LiftStatusEnum
           /\ body.AvalancheDanger \in AvalancheDangerEnum,
           Restrict(body, {"Lift", "Metadata"} \cup DynamicFields))

createResortDataSchema(body) ==
    Parsed(/\ ({"Metadata"} \cup ResortFields) \subseteq DOMAIN body
           /\ DateRegex(body.Metadata)
           /\ body.TotalUniqueLiftRiders >= 0
           /\ body.AverageSnowCoverageInches >= 0
           /\ body.AvalancheDanger \in AvalancheDangerEnum,
           Restrict(body, {"Metadata"} \cup ResortFields))

updateStaticDataSchema(body) ==
    Parsed(/\ "ExperiencedRidersOnly" \in DOMAIN body => body.ExperiencedRidersOnly \in BOOLEAN
           /\ "VerticalFeet" \in DOMAIN body => body.VerticalFeet > 0
           /\ "LiftTime" \in DOMAIN body => LiftTimeRegex(body.LiftTime),
           Restrict(body, StaticFields))

updateDynamicDataSchema(body) ==
    Parsed(/\ "TotalUniqueLiftRiders" \in DOMAIN body => body.TotalUniqueLiftRiders >= 0
           /\ "AverageSnowCoverageInches" \in DOMAIN body => body.AverageSnowCoverageInches >= 0
           /\ "LiftStatus" \in DOMAIN body => body.LiftStatus \in LiftStatusEnum
           /\ "AvalancheDanger" \in DOMAIN body => body.AvalancheDanger \in AvalancheDangerEnum,
           Restrict(body, DynamicFields))

liftParamsSchema(params) ==
    Parsed("lift" \in DOMAIN params /\ params.lift # "", Restrict(params, {"lift"}))

liftMetadataParamsSchema(params) ==
    Parsed(/\ {"lift", "metadata"} \subseteq DOMAIN params
           /\ params.lift # ""
           /\ params.metadata # "",
           Restrict(params, {"lift", "metadata"}))

DefaultLimit == 20
MaxLimit == 100

\* limit: z.coerce.number().positive().max(100).optional().default(20)
\* positive() is limit > 0 and max(100) is limit <= 100; for n + 1/2 these are
\* n >= 0 and n < 100.
LimitOk(q) ==
    "limit" \in DOMAIN q =>
        IF Whole(q) THEN q.limit > 0 /\ q.limit <= MaxLimit
        ELSE q.limit >= 0 /\ q.limit < MaxLimit
WithLimit(q, fields) ==
    IF "limit" \in DOMAIN q THEN Restrict(q, {"limit", "half"} \cup fields)
    ELSE [limit |-> DefaultLimit] @@ Restrict(q, fields)

\* The querystring schema of GET /api/skilifts/:lift, applied by the framework
\* before the handler: limit is a number, minimum 1, maximum 100, default 20.
liftQuerystringSchema(query) ==
    Parsed("limit" \in DOMAIN query =>
                /\ query.limit >= 1
                /\ IF Whole(query) THEN query.limit <= MaxLimit ELSE query.limit < MaxLimit,
           WithLimit(query, {}))

listQuerySchema(query) ==
    Parsed(LimitOk(query), WithLimit(query, {"lastEvaluatedLift", "lastEvaluatedMetadata"}))

queryByRidersSchema(query) ==
    Parsed(/\ "minRiders" \in DOMAIN query => query.minRiders >= 0
           /\ "maxRiders" \in DOMAIN query => query.maxRiders >= 0
           /\ LimitOk(query),
           WithLimit(query, {"minRiders", "maxRiders"}))

----------------------------------------------------------------------------
(* The service (services/skilift.service.ts).  Each operation takes the    *)
(* table s and the outcome out of its store call (NoRec: the call          *)
(* succeeds), and gives [ok, value, store, calls, cmd]: the value returned  *)
(* or the error thrown, the table afterwards, the number of store calls    *)
(* issued and the write command the store accepted (its type, Key and Item  *)
(* or SET values).                                                         *)

NoCmd == [type |-> "None", key |-> <<"", "">>, item |-> NoRec]
Cmd(type, key, item) == [type |-> type, key |-> key, item |-> item]

Returned(value, s, cmd) == [ok |-> TRUE, value |-> value, store |-> s, calls |-> 1, cmd |-> cmd]
Thrown(error, s, calls) == [ok |-> FALSE, value |-> error, store |-> s, calls |-> calls, cmd |-> NoCmd]

\* Mutant: the item sent to the store lacks LiftTime.
createStaticDataDropsLiftTime(s, data, out) ==
    LET item == [Lift |-> data.Lift,
                 Metadata |-> STATIC,
                 ExperiencedRidersOnly |-> data.ExperiencedRidersOnly,
                 VerticalFeet |-> data.VerticalFeet,
                 LiftTime |-> data.LiftTime]
        sent == Restrict(item, (DOMAIN item) \ {"LiftTime"})
    IN IF DOMAIN out = {}
       THEN Returned(item, PutCommand(s, sent), Cmd("Put", KeyOf(item), item))
       ELSE Thrown(DynamoDBError(<<"Failed to create static data">>, out), s, 1)

createStaticData(s, data, out) ==
    LET item == [Lift |-> data.Lift,
                 Metadata |-> STATIC,
                 ExperiencedRidersOnly |-> data.ExperiencedRidersOnly,
                 VerticalFeet |-> data.VerticalFeet,
                 LiftTime |-> data.LiftTime]
    IN IF DOMAIN out = {}
       THEN Returned(item, PutCommand(s, item), Cmd("Put", KeyOf(item), item))
       ELSE Thrown(DynamoDBError(<<"Failed to create static data">>, out), s, 1)

\* Mutant: a rejected PutCommand is sent a second time, and the second call succeeds.
createDynamicDataRetries(s, data, out) ==
    LET item == [Lift |-> data.Lift,
                 Metadata |-> data.Metadata,
                 TotalUniqueLiftRiders |-> data.TotalUniqueLiftRiders,
                 AverageSnowCoverageInches |-> data.AverageSnowCoverageInches,
                 LiftStatus |-> data.LiftStatus,
                 AvalancheDanger |-> data.AvalancheDanger]
        sent == Returned(item, PutCommand(s, item), Cmd("Put", KeyOf(item), item))
    IN IF DOMAIN out = {} THEN sent ELSE [sent EXCEPT !.calls = 2]

createDynamicData(s, data, out) ==
    LET item == [Lift |-> data.Lift,
                 Metadata |-> data.Metadata,
                 TotalUniqueLiftRiders |-> data.TotalUniqueLiftRiders,
                 AverageSnowCoverageInches |-> data.AverageSnowCoverageInches,
                 LiftStatus |-> data.LiftStatus,
                 AvalancheDanger |-> data.AvalancheDanger]
    IN IF DOMAIN out = {}
       THEN Returned(item, PutCommand(s, item), Cmd("Put", KeyOf(item), item))
       ELSE Thrown(DynamoDBError(<<"Failed to create dynamic data">>, out), s, 1)

createResortData(s, data, out) ==
    LET item == [Lift |-> RESORT,
                 Metadata |-> data.Metadata,
                 TotalUniqueLiftRiders |-> data.TotalUniqueLiftRiders,
                 AverageSnowCoverageInches |-> data.AverageSnowCoverageInches,
                 AvalancheDanger |-> data.AvalancheDanger,
                 OpenLifts |-> data.OpenLifts]
    IN IF DOMAIN out = {}
       THEN Returned(item, PutCommand(s, item), Cmd("Put", KeyOf(item), item))
       ELSE Thrown(DynamoDBError(<<"Failed to create resort data">>, out), s, 1)

\* Mutant: the catch block wraps whatever the try block threw.
getSkiLiftWrapsNotFound(s, lift, metadata, out) ==
    LET result == GetCommand(s, <<lift, metadata>>)
        error == IF DOMAIN out # {} THEN out
                 ELSE IF "Item" \notin DOMAIN result
                 THEN NotFoundError(<<"Ski lift data not found for ", lift, " - ", metadata>>)
                 ELSE NoRec
    IN IF DOMAIN error = {} THEN Returned(result.Item, s, NoCmd)
       ELSE Thrown(DynamoDBError(<<"Failed to get ski lift data">>, error), s, 1)

\* error is what the try block throws: the error of the store, or NotFoundError
\* when the result carries no Item; the catch block rethrows a NotFoundError as
\* it is and wraps anything else.
getSkiLift(s, lift, metadata, out) ==
    LET result == GetCommand(s, <<lift, metadata>>)
        error == IF DOMAIN out # {} THEN out
                 ELSE IF "Item" \notin DOMAIN result
                 THEN NotFoundError(<<"Ski lift data not found for ", lift, " - ", metadata>>)
                 ELSE NoRec
    IN IF DOMAIN error = {} THEN Returned(result.Item, s, NoCmd)
       ELSE IF error.class = "NotFoundError" THEN Thrown(error, s, 1)
       ELSE Thrown(DynamoDBError(<<"Failed to get ski lift data">>, error), s, 1)

\* Mutant: a SET clause for each field of data whose value is truthy.
UpdateSetsTruthy(data, fields) ==
    [a \in {b \in (DOMAIN data) \cap fields :
                IF b \in {"TotalUniqueLiftRiders", "AverageSnowCoverageInches", "VerticalFeet"}
                THEN data[b] # 0
                ELSE IF b = "ExperiencedRidersOnly" THEN data[b]
                ELSE data[b] # ""} |-> data[a]]

\* The SET clauses of an update: one per field of data that is not undefined.
UpdateSets(data, fields) == Restrict(data, fields)

\* Mutant: no check for an empty SET list; the command is sent as built.
updateStaticDataSendsEmpty(s, lift, data, out) ==
    LET sets == UpdateSets(data, StaticFields)
        key == <<lift, STATIC>>
    IN IF DOMAIN out = {}
       THEN LET attributes == UpdateCommand(s, key, sets)
            IN Returned(attributes, UpdatedTable(s, key, attributes), Cmd("Update", key, sets))
       ELSE Thrown(DynamoDBError(<<"Failed to update static data">>, out), s, 1)

updateStaticData(s, lift, data, out) ==
    LET sets == UpdateSets(data, StaticFields)
        key == <<lift, STATIC>>
    IN IF DOMAIN sets = {}
       THEN Thrown(DynamoDBError(<<"No fields to update">>, NoRec), s, 0)
       ELSE IF DOMAIN out = {}
       THEN LET attributes == UpdateCommand(s, key, sets)
            IN Returned(attributes, UpdatedTable(s, key, attributes), Cmd("Update", key, sets))
       ELSE Thrown(DynamoDBError(<<"Failed to update static data">>, out), s, 1)

\* Mutant: the SET list also writes Metadata.
updateDynamicDataSetsMetadata(s, lift, metadata, data, out) ==
    LET sets == UpdateSets(data, DynamicFields) @@ [Metadata |-> STATIC]
        key == <<lift, metadata>>
    IN IF DOMAIN UpdateSets(data, DynamicFields) = {}
       THEN Thrown(DynamoDBError(<<"No fields to update">>, NoRec), s, 0)
       ELSE IF DOMAIN out = {}
       THEN LET attributes == UpdateCommand(s, key, sets)
            IN Returned(attributes, UpdatedTable(s, key, attributes), Cmd("Update", key, sets))
       ELSE Thrown(DynamoDBError(<<"Failed to update dynamic data">>, out), s, 1)

updateDynamicData(s, lift, metadata, data, out) ==
    LET sets == UpdateSets(data, DynamicFields)
        key == <<lift, metadata>>
    IN IF DOMAIN sets = {}
       THEN Thrown(DynamoDBError(<<"No fields to update">>, NoRec), s, 0)
       ELSE IF DOMAIN out = {}
       THEN LET attributes == UpdateCommand(s, key, sets)
            IN Returned(attributes, UpdatedTable(s, key, attributes), Cmd("Update", key, sets))
       ELSE Thrown(DynamoDBError(<<"Failed to update dynamic data">>, out), s, 1)

\* Mutant: deleting a key that holds no item is an error.
deleteSkiLiftRequiresItem(s, lift, metadata, out) ==
    IF DOMAIN out # {}
    THEN Thrown(DynamoDBError(<<"Failed to delete ski lift data">>, out), s, 1)
    ELSE IF <<lift, metadata>> \notin DOMAIN s
    THEN Thrown(NotFoundError(<<"Ski lift data not found for ", lift, " - ", metadata>>), s, 1)
    ELSE Returned(NoRec, DeleteCommand(s, <<lift, metadata>>), Cmd("Delete", <<lift, metadata>>, NoRec))

\* Mutant: the delete removes every item of the lift.
deleteSkiLiftWholeLift(s, lift, metadata, out) ==
    IF DOMAIN out = {}
    THEN Returned(NoRec, [k \in {j \in DOMAIN s : j[1] # lift} |-> s[k]],
                  Cmd("Delete", <<lift, metadata>>, NoRec))
    ELSE Thrown(DynamoDBError(<<"Failed to delete ski lift data">>, out), s, 1)

deleteSkiLift(s, lift, metadata, out) ==
    IF DOMAIN out = {}
    THEN Returned(NoRec, DeleteCommand(s, <<lift, metadata>>), Cmd("Delete", <<lift, metadata>>, NoRec))
    ELSE Thrown(DynamoDBError(<<"Failed to delete ski lift data">>, out), s, 1)

\* The object the list and query operations return; lastEvaluatedKey is
\* undefined when the store returned none.
Paginated(result) ==
    [items |-> result.Items, count |-> result.Count] @@
    (IF "LastEvaluatedKey" \in DOMAIN result THEN [lastEvaluatedKey |-> result.LastEvaluatedKey]
     ELSE NoRec)

\* Truthiness of an optional string field of the query.
Truthy(q, f) == f \in DOMAIN q /\ q[f] # ""

\* What the store answers a read command with: the error out when it has one,
\* else its rejection of a Limit it does not take, else nothing (the command runs).
ReadRejected(limit, out) ==
    IF DOMAIN out # {} THEN out
    ELSE IF ~LimitAccepted(limit) THEN LimitRejected
    ELSE NoRec

\* limit is the number the route passes: [limit |-> n] or [limit |-> n, half |-> TRUE].
queryLiftData(s, lift, limit, out, atEnd) ==
    LET rejected == ReadRejected(limit, out)
    IN IF DOMAIN rejected = {}
       THEN Returned(Paginated(QueryCommand(s, lift, limit.limit, atEnd)), s, NoCmd)
       ELSE Thrown(DynamoDBError(<<"Failed to query lift data">>, rejected), s, 1)

\* Mutant: the cursor of the query is never passed on to the scan.
listSkiLiftsIgnoresCursor(s, query, out, atEnd) ==
    LET rejected == ReadRejected(query, out)
    IN IF DOMAIN rejected = {}
       THEN Returned(Paginated(ScanCommand(s, query.limit, NoRec, atEnd)), s, NoCmd)
       ELSE Thrown(DynamoDBError(<<"Failed to list ski lifts">>, rejected), s, 1)

listSkiLifts(s, query, out, atEnd) ==
    LET start == IF Truthy(query, "lastEvaluatedLift") /\ Truthy(query, "lastEvaluatedMetadata")
                 THEN [Lift |-> query.lastEvaluatedLift, Metadata |-> query.lastEvaluatedMetadata]
                 ELSE NoRec
        rejected == ReadRejected(query, out)
    IN IF DOMAIN rejected = {}
       THEN Returned(Paginated(ScanCommand(s, query.limit, start, atEnd)), s, NoCmd)
       ELSE Thrown(DynamoDBError(<<"Failed to list ski lifts">>, rejected), s, 1)

\* Mutant: the bounds are tested for truthiness, so a bound of 0 counts as absent.
queryByRidersTruthyBounds(s, lift, query, out, order, atEnd) ==
    LET hasMin == "minRiders" \in DOMAIN query /\ query.minRiders # 0
        hasMax == "maxRiders" \in DOMAIN query /\ query.maxRiders # 0
        cond == IF hasMin /\ hasMax THEN "between"
                ELSE IF hasMin THEN "ge"
                ELSE IF hasMax THEN "le"
                ELSE "none"
        lo == IF hasMin THEN query.minRiders ELSE 0
        hi == IF hasMax THEN query.maxRiders ELSE 0
        rejected == IF DOMAIN ReadRejected(query, out) # {} THEN ReadRejected(query, out)
                    ELSE IF cond = "between" /\ lo > hi THEN BetweenRejected
                    ELSE NoRec
    IN IF DOMAIN rejected = {}
       THEN Returned(Paginated(QueryIndexCommand(s, order, cond, lo, hi, query.limit, atEnd)), s, NoCmd)
       ELSE Thrown(DynamoDBError(<<"Failed to query by riders">>, rejected), s, 1)

queryByRiders(s, lift, query, out, order, atEnd) ==
    LET hasMin == "minRiders" \in DOMAIN query
        hasMax == "maxRiders" \in DOMAIN query
        cond == IF hasMin /\ hasMax THEN "between"
                ELSE IF hasMin THEN "ge"
                ELSE IF hasMax THEN "le"
                ELSE "none"
        lo == IF hasMin THEN query.minRiders ELSE 0
        hi == IF hasMax THEN query.maxRiders ELSE 0
        rejected == IF DOMAIN ReadRejected(query, out) # {} THEN ReadRejected(query, out)
                    ELSE IF cond = "between" /\ lo > hi THEN BetweenRejected
                    ELSE NoRec
    IN IF DOMAIN rejected = {}
       THEN Returned(Paginated(QueryIndexCommand(s, order, cond, lo, hi, query.limit, atEnd)), s, NoCmd)
       ELSE Thrown(DynamoDBError(<<"Failed to query by riders">>, rejected), s, 1)

----------------------------------------------------------------------------
(* The route handlers (routes/skilift.routes.ts).                          *)

\* Mutant: every error is answered 500.
HandlerErrorAlways500(error) ==
    [status |-> 500, body |-> formatErrorResponse(error)]

\* The catch block every handler shares.
HandlerError(error) ==
    LET errorResponse == formatErrorResponse(error)
    IN [status |-> IF error.class \in AppErrorClasses THEN error.statusCode
                   ELSE errorResponse.error.statusCode,
        body |-> errorResponse]

Reply(successCode, r) ==
    IF r.ok THEN [status |-> successCode, body |-> r.value] ELSE HandlerError(r.value)

\* schema.parse threw: the handler goes to its catch block before any service call.
ParseFailed(s) == Thrown(ZodError(<<"invalid input">>), s, 0)

\* The write the store accepted last for each key: the command, the item it sent
\* (a create) or left under the key (an update), the item it found there, and whether the item the key holds goes
\* back to a create (a PutCommand) not followed by a delete.
NoWrite == [op |-> "none", item |-> NoRec, prev |-> NoRec, created |-> FALSE]

RecordWrite(lw, s, r) ==
    IF r.cmd.type = "None" THEN lw
    ELSE LET k == r.cmd.key
             prev == IF k \in DOMAIN s THEN s[k] ELSE NoRec
         IN [lw EXCEPT ![k] =
                IF r.cmd.type = "Put"
                THEN [op |-> "create", item |-> r.cmd.item, prev |-> prev, created |-> TRUE]
                ELSE IF r.cmd.type = "Update"
                THEN [op |-> "update", item |-> r.store[k], prev |-> prev, created |-> @.created]
                ELSE [op |-> "delete", item |-> NoRec, prev |-> prev, created |-> FALSE]]

\* A client that pages through GET /api/skilifts: it starts without a cursor and
\* passes the lastEvaluatedKey of each page as the cursor of the next request.
\* seen are the items of the pages so far; a write to the table ends the walk.
NoWalk == [active |-> FALSE, cursor |-> NoRec, seen |-> <<>>, pages |-> 0]

CursorQuery(c) ==
    IF DOMAIN c = {} THEN NoRec
    ELSE [lastEvaluatedLift |-> c.Lift, lastEvaluatedMetadata |-> c.Metadata]

WalkAfter(w, op, query, r) ==
    IF r.cmd.type # "None" THEN NoWalk
    ELSE IF op # "listSkiLifts" \/ ~r.ok THEN w
    ELSE LET cursor == IF "lastEvaluatedKey" \in DOMAIN r.value THEN r.value.lastEvaluatedKey
                       ELSE NoRec
             given == Restrict(query, {"lastEvaluatedLift", "lastEvaluatedMetadata"})
         IN IF DOMAIN given = {}
            THEN [active |-> TRUE, cursor |-> cursor, seen |-> r.value.items, pages |-> 1]
            ELSE IF w.active /\ DOMAIN w.cursor # {} /\ given = CursorQuery(w.cursor)
            THEN [active |-> TRUE, cursor |-> cursor, seen |-> w.seen \o r.value.items,
                  pages |-> w.pages + 1]
            ELSE NoWalk

\* The reply of a handler and what its store call did, r being what the handler
\* got from the service.
Answered(op, lift, metadata, req, reply, r, out) ==
    /\ nreq < MaxRequests
    /\ r.calls = 0 => DOMAIN out = {}
    /\ nreq' = nreq + 1
    /\ store' = r.store
    /\ last' = [op |-> op, lift |-> lift, metadata |-> metadata, req |-> req,
                status |-> reply.status, body |-> reply.body,
                calls |-> r.calls, error |-> IF r.ok THEN NoRec ELSE r.value]
    /\ lastWrite' = RecordWrite(lastWrite, store, r)
    /\ walk' = WalkAfter(walk, op, req, r)

\* One request answered with reply, handled from its arrival to its reply with
\* no other request in between.
Answer(op, lift, metadata, req, reply, r, out) ==
    /\ Answered(op, lift, metadata, req, reply, r, out)
    /\ pending' = pending

\* One request handled from its arrival to its response.
Respond(op, lift, metadata, req, successCode, r, out) ==
    Answer(op, lift, metadata, req, Reply(successCode, r), r, out)

\* POST /api/skilifts/static
PostStatic(body, out) ==
    LET p == createStaticDataSchema(body)
        r == IF p.ok THEN createStaticData(store, p.data, out) ELSE ParseFailed(store)
    IN Respond("createStaticData", "", "", body, 201, r, out)

\* POST /api/skilifts/dynamic
PostDynamic(body, out) ==
    LET p == createDynamicDataSchema(body)
        r == IF p.ok THEN createDynamicData(store, p.data, out) ELSE ParseFailed(store)
    IN Respond("createDynamicData", "", "", body, 201, r, out)

\* POST /api/skilifts/resort
PostResort(body, out) ==
    LET p == createResortDataSchema(body)
        r == IF p.ok THEN createResortData(store, p.data, out) ELSE ParseFailed(store)
    IN Respond("createResortData", "", "", body, 201, r, out)

\* GET /api/skilifts/:lift/:metadata (the router prefers the static segment
\* "by-riders" of GET /api/skilifts/:lift/by-riders)
GetOne(lift, metadata, out) ==
    LET p == liftMetadataParamsSchema([lift |-> lift, metadata |-> metadata])
        r == IF p.ok THEN getSkiLift(store, p.data.lift, p.data.metadata, out) ELSE ParseFailed(store)
    IN /\ metadata # "by-riders"
       /\ Respond("getSkiLift", lift, metadata, NoRec, 200, r, out)

\* Mutant: the body is validated after the service has been called with it.
PutStaticValidatesLate(lift, body, out) ==
    LET p == liftParamsSchema([lift |-> lift])
        d == updateStaticDataSchema(body)
        u == updateStaticData(store, lift, body, out)
        r == IF (p.ok /\ d.ok) \/ ~u.ok THEN u
             ELSE Thrown(ZodError(<<"invalid input">>), u.store, u.calls)
    IN Respond("updateStaticData", lift, STATIC, body, 200, r, out)

\* PUT /api/skilifts/:lift/static
PutStatic(lift, body, out) ==
    LET p == liftParamsSchema([lift |-> lift])
        d == updateStaticDataSchema(body)
        r == IF p.ok /\ d.ok THEN updateStaticData(store, p.data.lift, d.data, out)
             ELSE ParseFailed(store)
    IN Respond("updateStaticData", lift, STATIC, body, 200, r, out)

\* PUT /api/skilifts/:lift/:metadata (the router prefers the static segment
\* "static" of PUT /api/skilifts/:lift/static)
PutDynamic(lift, metadata, body, out) ==
    LET p == liftMetadataParamsSchema([lift |-> lift, metadata |-> metadata])
        d == updateDynamicDataSchema(body)
        r == IF p.ok /\ d.ok THEN updateDynamicData(store, p.data.lift, p.data.metadata, d.data, out)
             ELSE ParseFailed(store)
    IN /\ metadata # "static"
       /\ Respond("updateDynamicData", lift, metadata, body, 200, r, out)

\* DELETE /api/skilifts/:lift/:metadata
DeleteOne(lift, metadata, out) ==
    LET p == liftMetadataParamsSchema([lift |-> lift, metadata |-> metadata])
        r == IF p.ok THEN deleteSkiLift(store, p.data.lift, p.data.metadata, out) ELSE ParseFailed(store)
    IN Respond("deleteSkiLift", lift, metadata, NoRec, 204, r, out)

\* The framework's answer to a request that fails the schema of its route: the
\* handler is not called.
SchemaRejected(s) == [ok |-> FALSE, value |-> NoRec, store |-> s, calls |-> 0, cmd |-> NoCmd]
ValidationReply ==
    [status |-> 400,
     body |-> [statusCode |-> 400, code |-> "FST_ERR_VALIDATION", error |-> "Bad Request",
               message |-> <<"querystring/limit">>]]

\* Mutant: the handler passes the cursor fields of the query on, and the query
\* resumes after that key.
GetByLiftResumes(lift, query, out, atEnd) ==
    LET q == liftQuerystringSchema(query)
        limit == IF Whole(q.data) /\ q.data.limit = 0 THEN [limit |-> DefaultLimit] ELSE q.data
        resumes == Truthy(query, "lastEvaluatedLift") /\ Truthy(query, "lastEvaluatedMetadata")
        After(k) == /\ k \in DOMAIN store
                    /\ k[1] = lift
                    /\ resumes => KeyRank(k) > KeyRank(<<query.lastEvaluatedLift, query.lastEvaluatedMetadata>>)
        r == IF DOMAIN ReadRejected(limit, out) = {}
             THEN Returned(Paginated(Page(SelectSeq(TableOrder, After), store, limit.limit, atEnd)),
                           store, NoCmd)
             ELSE Thrown(DynamoDBError(<<"Failed to query lift data">>, ReadRejected(limit, out)), store, 1)
    IN IF q.ok THEN Respond("queryLiftData", lift, "", query, 200, r, out)
       ELSE Answer("queryLiftData", lift, "", query, ValidationReply, SchemaRejected(store), out)

\* GET /api/skilifts/:lift; limit is request.query.limit || 20
GetByLift(lift, query, out, atEnd) ==
    LET q == liftQuerystringSchema(query)
        p == liftParamsSchema([lift |-> lift])
        limit == IF Whole(q.data) /\ q.data.limit = 0 THEN [limit |-> DefaultLimit] ELSE q.data
        r == IF p.ok THEN queryLiftData(store, p.data.lift, limit, out, atEnd) ELSE ParseFailed(store)
    IN IF q.ok THEN Respond("queryLiftData", lift, "", query, 200, r, out)
       ELSE Answer("queryLiftData", lift, "", query, ValidationReply, SchemaRejected(store), out)

\* GET /api/skilifts
ListAll(query, out, atEnd) ==
    LET p == listQuerySchema(query)
        r == IF p.ok THEN listSkiLifts(store, p.data, out, atEnd) ELSE ParseFailed(store)
    IN Respond("listSkiLifts", "", "", query, 200, r, out)

\* GET /api/skilifts/:lift/by-riders; order is the order the index holds the
\* entries of the lift in (one of IndexOrders)
GetByRiders(lift, query, out, order, atEnd) ==
    LET p == liftParamsSchema([lift |-> lift])
        q == queryByRidersSchema(query)
        r == IF p.ok /\ q.ok THEN queryByRiders(store, p.data.lift, q.data, out, order, atEnd)
             ELSE ParseFailed(store)
    IN Respond("queryByRiders", lift, "", query, 200, r, out)

\* What the handler of the route of op catches or gets back from the service for
\* a request, when out is the outcome of the store call.
HandlerResult(op, lift, metadata, req, out) ==
    LET lm == liftMetadataParamsSchema([lift |-> lift, metadata |-> metadata])
        l == liftParamsSchema([lift |-> lift])
    IN CASE op = "createStaticData" ->
                LET p == createStaticDataSchema(req)
                IN IF p.ok THEN createStaticData(store, p.data, out) ELSE ParseFailed(store)
         [] op = "createDynamicData" ->
                LET p == createDynamicDataSchema(req)
                IN IF p.ok THEN createDynamicData(store, p.data, out) ELSE ParseFailed(store)
         [] op = "createResortData" ->
                LET p == createResortDataSchema(req)
                IN IF p.ok THEN createResortData(store, p.data, out) ELSE ParseFailed(store)
         [] op = "getSkiLift" ->
                IF lm.ok THEN getSkiLift(store, lm.data.lift, lm.data.metadata, out)
                ELSE ParseFailed(store)
         [] op = "updateStaticData" ->
                LET d == updateStaticDataSchema(req)
                IN IF l.ok /\ d.ok THEN updateStaticData(store, l.data.lift, d.data, out)
                   ELSE ParseFailed(store)
         [] op = "updateDynamicData" ->
                LET d == updateDynamicDataSchema(req)
                IN IF lm.ok /\ d.ok
                   THEN updateDynamicData(store, lm.data.lift, lm.data.metadata, d.data, out)
                   ELSE ParseFailed(store)
         [] op = "deleteSkiLift" ->
                IF lm.ok THEN deleteSkiLift(store, lm.data.lift, lm.data.metadata, out)
                ELSE ParseFailed(store)

----------------------------------------------------------------------------
(* Requests of the specification Spec.                                     *)

PostStaticBodies ==
    { [Lift |-> "Lift 1"] @@ StaticA,
      [Lift |-> "Lift 1", Metadata |-> "01/01/20"] @@ StaticB,
      [Lift |-> RESORT] @@ StaticA,
      [Lift |-> "Lift 1", ExperiencedRidersOnly |-> FALSE, VerticalFeet |-> 0, LiftTime |-> "8:00"] }

PostDynamicBodies ==
    { [Lift |-> "Lift 1", Metadata |-> "01/01/20"] @@ DynamicA,
      [Lift |-> "Lift 1", Metadata |-> "01/02/20"] @@ DynamicB,
      [Lift |-> RESORT, Metadata |-> "01/01/20"] @@ DynamicB,
      [Lift |-> "Lift 1", Metadata |-> STATIC] @@ DynamicA }

PostResortBodies ==
    { [Metadata |-> "01/01/20"] @@ ResortA,
      [Lift |-> "Lift 1", Metadata |-> "01/01/20"] @@ ResortA,
      [Metadata |-> "01/01/20", TotalUniqueLiftRiders |-> 2] }

PutStaticBodies ==
    { NoRec,
      Restrict(StaticB, {"VerticalFeet"}),
      Restrict(StaticB, {"ExperiencedRidersOnly", "LiftTime"}),
      StaticB,
      [VerticalFeet |-> 0] }

PutDynamicBodies ==
    { NoRec,
      Restrict(DynamicB, {"LiftStatus"}),
      Restrict(DynamicB, {"TotalUniqueLiftRiders", "AvalancheDanger"}),
      DynamicB,
      [Lift |-> RESORT, Metadata |-> "01/02/20", LiftStatus |-> "Pending"],
      [LiftStatus |-> "Broken"] }

PutDynamicKeys == {<<"Lift 1", "01/01/20">>, <<"Lift 1", STATIC>>, <<RESORT, "01/01/20">>}

Init ==
    /\ store = NoRec
    /\ last = [op |-> "none", lift |-> "", metadata |-> "", req |-> NoRec,
               status |-> 0, body |-> NoRec, calls |-> 0, error |-> NoRec]
    /\ lastWrite = [k \in Keys |-> NoWrite]
    /\ walk = NoWalk
    /\ nreq = 0
    /\ pending = NoRec

Next ==
    \/ \E body \in PostStaticBodies, out \in StoreOutcomes : PostStatic(body, out)
    \/ \E body \in PostDynamicBodies, out \in StoreOutcomes : PostDynamic(body, out)
    \/ \E body \in PostResortBodies, out \in StoreOutcomes : PostResort(body, out)
    \/ \E k \in Keys, out \in StoreOutcomes : GetOne(k[1], k[2], out)
    \/ \E lift \in LiftNames, body \in PutStaticBodies, out \in StoreOutcomes : PutStatic(lift, body, out)
    \/ \E k \in PutDynamicKeys, body \in PutDynamicBodies, out \in StoreOutcomes :
            PutDynamic(k[1], k[2], body, out)
    \/ \E k \in Keys, out \in StoreOutcomes : DeleteOne(k[1], k[2], out)

Spec == Init /\ [][Next]_vars

----------------------------------------------------------------------------
(* Tables the create and update requests above lead to, as starting points  *)
(* of the specifications below.                                             *)

CreatedItem(k) ==
    KeyRecord(k) @@ (IF k[2] = STATIC THEN StaticA ELSE IF k[1] = RESORT THEN ResortA ELSE DynamicA)

InitialWrites(s) ==
    [k \in Keys |->
        IF k \in DOMAIN s
        THEN [op |-> IF s[k] = CreatedItem(k) THEN "create" ELSE "update",
              item |-> s[k], prev |-> NoRec, created |-> TRUE]
        ELSE NoWrite]

InitFrom(s, n) ==
    /\ store = s
    /\ last = [op |-> "none", lift |-> "", metadata |-> "", req |-> NoRec,
               status |-> 0, body |-> NoRec, calls |-> 0, error |-> NoRec]
    /\ lastWrite = InitialWrites(s)
    /\ walk = NoWalk
    /\ nreq = n
    /\ pending = NoRec

\* All functions from a subset of K to the items that items[k] allows for each key.
Tables(K, items) ==
    UNION {{f \in [D -> UNION {items[k] : k \in D}] : \A k \in D : f[k] \in items[k]} : D \in SUBSET K}

----------------------------------------------------------------------------
(* SpecUpdate: the two update routes with every subset of the fields of     *)
(* their shape, on the static and a dynamic record of one lift.            *)

UpdateKeys == {<<"Lift 1", STATIC>>, <<"Lift 1", "01/01/20">>}
UpdateItems ==
    [k \in UpdateKeys |->
        {KeyRecord(k) @@ v : v \in (IF k[2] = STATIC THEN {StaticA, StaticB} ELSE {DynamicA, DynamicB})}]

AllStaticUpdates ==
    {Restrict(StaticB, S) : S \in SUBSET StaticFields} \cup {Restrict(StaticA, {"ExperiencedRidersOnly"})}
AllDynamicUpdates == {Restrict(DynamicB, S) : S \in SUBSET DynamicFields}

InitUpdate == \E s \in Tables(UpdateKeys, UpdateItems) : InitFrom(s, 0)

NextUpdate ==
    \/ \E body \in AllStaticUpdates, out \in StoreOutcomes : PutStatic("Lift 1", body, out)
    \/ \E body \in AllDynamicUpdates, out \in StoreOutcomes :
            PutDynamic("Lift 1", "01/01/20", body, out)

SpecUpdate == InitUpdate /\ [][NextUpdate]_vars

----------------------------------------------------------------------------
(* SpecQuery: one query by riders on a table holding up to three index      *)
(* entries of a lift (two dynamic records and a static record that an       *)
(* update through PUT /api/skilifts/:lift/:metadata gave a rider count).    *)

MaxRiders == 2

QueryKeys == {<<"Lift 1", "01/01/20">>, <<"Lift 1", "01/02/20">>, <<"Lift 1", STATIC>>,
              <<RESORT, "01/01/20">>}
QueryItems ==
    [k \in QueryKeys |->
        IF k[2] = STATIC
        THEN {CreatedItem(k), CreatedItem(k) @@ [TotalUniqueLiftRiders |-> 1]}
        ELSE IF k[1] = RESORT THEN {CreatedItem(k)}
        ELSE {[CreatedItem(k) EXCEPT !.TotalUniqueLiftRiders = n] : n \in 0..MaxRiders}]

RiderBounds(f) == {NoRec} \cup {[a \in {f} |-> n] : n \in 0..MaxRiders}
LimitChoices == {NoRec} \cup {[limit |-> n] : n \in 0..MaxPageLimit}
RiderQueries ==
    {lo @@ hi @@ lim : lo \in RiderBounds("minRiders"), hi \in RiderBounds("maxRiders"),
                       lim \in LimitChoices}

InitQuery == \E s \in Tables(QueryKeys, QueryItems) : InitFrom(s, MaxRequests - 1)

NextQuery ==
    \E lift \in LiftNames :
        \E order \in IndexOrders(store, lift, ScanIndexForward) :
            \E query \in RiderQueries, out \in StoreOutcomes, atEnd \in BOOLEAN :
                GetByRiders(lift, query, out, order, atEnd)

SpecQuery == InitQuery /\ [][NextQuery]_vars

----------------------------------------------------------------------------
(* SpecList: a client paging through GET /api/skilifts over a table of      *)
(* created records.                                                        *)

ListItems == [k \in Keys |-> {CreatedItem(k)}]

\* Cursor fields a client can send besides the cursor of the last page: both
\* fields with an empty sort key (the schema accepts any string), and one field
\* without the other.
ListCursors ==
    {[lastEvaluatedLift |-> RESORT, lastEvaluatedMetadata |-> ""],
     [lastEvaluatedLift |-> "Lift 1", lastEvaluatedMetadata |-> "01/02/20"],
     [lastEvaluatedLift |-> "Lift 1"],
     [lastEvaluatedMetadata |-> STATIC]}

ListQueries ==
    {lim @@ c : lim \in LimitChoices, c \in {CursorQuery(walk.cursor)} \cup ListCursors}
        \cup LimitChoices

InitList == \E s \in Tables(Keys, ListItems) : InitFrom(s, 0)

NextList ==
    \E query \in ListQueries, out \in StoreOutcomes, atEnd \in BOOLEAN : ListAll(query, out, atEnd)

SpecList == InitList /\ [][NextList]_vars

----------------------------------------------------------------------------
(* SpecRead: one read request (by lift, list or by riders) on a table of    *)
(* created records, with limits absent, fractional, below, at and above     *)
(* the bounds of the schemas.                                               *)

ReadLimits ==
    LimitChoices \cup {[limit |-> 0, half |-> TRUE], [limit |-> 1, half |-> TRUE],
                       [limit |-> MaxLimit], [limit |-> MaxLimit + 1]}

InitRead == \E s \in Tables(Keys, ListItems) : InitFrom(s, MaxRequests - 1)

NextRead ==
    \/ \E lift \in LiftNames, query \in ReadLimits, out \in StoreOutcomes, atEnd \in BOOLEAN :
            GetByLift(lift, query, out, atEnd)
    \/ \E query \in ReadLimits, out \in StoreOutcomes, atEnd \in BOOLEAN : ListAll(query, out, atEnd)
    \/ \E lift \in LiftNames :
            \E order \in IndexOrders(store, lift, ScanIndexForward) :
                \E query \in ReadLimits, out \in StoreOutcomes, atEnd \in BOOLEAN :
                    GetByRiders(lift, query, out, order, atEnd)

SpecRead == InitRead /\ [][NextRead]_vars

----------------------------------------------------------------------------
(* SpecConcurrent: two clients send one update each.  A handler runs alone *)
(* up to the await of its store call (Enter); the store executes the       *)
(* commands it was sent one at a time, in any order, and the handler whose *)
(* call settled replies (Settle).                                          *)

Clients == {"first", "second"}

ConcurrentUpdates ==
    {[op |-> "updateStaticData", lift |-> "Lift 1", metadata |-> STATIC, req |-> body] :
        body \in {NoRec} \cup {Restrict(StaticB, {a}) : a \in StaticFields}}
    \cup
    {[op |-> "updateDynamicData", lift |-> k[1], metadata |-> k[2], req |-> Restrict(v, S)] :
        k \in UpdateKeys, v \in {DynamicA, DynamicB},
        S \in {{"LiftStatus"}, {"TotalUniqueLiftRiders"}, {"TotalUniqueLiftRiders", "AvalancheDanger"}}}

\* The handler of the request u of client c runs until it awaits its store call;
\* a handler that throws before any store call replies at once.
Enter(c, u) ==
    /\ c \notin DOMAIN pending
    /\ LET r == HandlerResult(u.op, u.lift, u.metadata, u.req, NoRec)
           arrived == Cardinality(DOMAIN pending) + 1
       IN IF r.calls = 0
          THEN /\ Answered(u.op, u.lift, u.metadata, u.req, Reply(200, r), r, NoRec)
               /\ pending' = pending @@ (c :> (u @@ [pc |-> "done", status |-> Reply(200, r).status,
                                                    arrived |-> arrived, settled |-> arrived]))
          ELSE /\ pending' = pending @@ (c :> (u @@ [pc |-> "sent", status |-> 0,
                                                    arrived |-> arrived, settled |-> 0]))
               /\ UNCHANGED <<store, last, lastWrite, walk, nreq>>

\* The store executes the command of client c on the table as it is now, with
\* outcome out, and the handler replies.
Settle(c, out) ==
    /\ c \in DOMAIN pending
    /\ pending[c].pc = "sent"
    /\ LET u == pending[c]
           r == HandlerResult(u.op, u.lift, u.metadata, u.req, out)
       IN /\ Answered(u.op, u.lift, u.metadata, u.req, Reply(200, r), r, out)
          /\ pending' = [pending EXCEPT ![c].pc = "done", ![c].status = Reply(200, r).status,
                                        ![c].settled = nreq + 1]

InitConcurrent ==
    \E s \in Tables(UpdateKeys, UpdateItems) : DOMAIN s = UpdateKeys /\ InitFrom(s, 0)

NextConcurrent ==
    \/ \E c \in Clients, u \in ConcurrentUpdates : Enter(c, u)
    \/ \E c \in Clients, out \in StoreOutcomes : Settle(c, out)

SpecConcurrent == InitConcurrent /\ [][NextConcurrent]_vars

----------------------------------------------------------------------------
(* SpecPaging: two requests in a row to the two query routes of a lift, the *)
(* second one also with the cursor of the first page as cursor fields.     *)

\* The cursor of the page answered last, as the cursor fields of a query.
FedBack ==
    IF last.status = 200 /\ "lastEvaluatedKey" \in DOMAIN last.body
    THEN CursorQuery(last.body.lastEvaluatedKey)
    ELSE NoRec

PagingLimits == {NoRec, [limit |-> 1], [limit |-> MaxPageLimit]}

InitPaging == \E s \in Tables(QueryKeys, QueryItems) : InitFrom(s, MaxRequests - 2)

NextPaging ==
    \/ \E lift \in LiftNames, lim \in PagingLimits, c \in {NoRec, FedBack},
          out \in StoreOutcomes, atEnd \in BOOLEAN :
            GetByLift(lift, lim @@ c, out, atEnd)
    \/ \E lift \in LiftNames :
            \E order \in IndexOrders(store, lift, ScanIndexForward) :
                \E lim \in PagingLimits, b \in {NoRec, [minRiders |-> 1]}, c \in {NoRec, FedBack},
                   out \in StoreOutcomes, atEnd \in BOOLEAN :
                    GetByRiders(lift, lim @@ b @@ c, out, order, atEnd)

SpecPaging == InitPaging /\ [][NextPaging]_vars

----------------------------------------------------------------------------
(* SpecClient: the plugin that builds the store client from the environment *)
(* (getDynamoDBConfig, then createDynamoDBClient).  An environment is a    *)
(* function from the variables that are set to their values; the client is *)
(* given by the configuration object passed to the DynamoDBClient.         *)

\* process.env[name] || default
EnvOr(env, name, default) ==
    IF name \in DOMAIN env /\ env[name] # "" THEN env[name] ELSE default

getDynamoDBConfig(env) ==
    LET mode == EnvOr(env, "DYNAMODB_MODE", "local")
    IN IF mode = "local"
       THEN [mode |-> "local",
             region |-> EnvOr(env, "DYNAMODB_LOCAL_REGION", "us-east-1"),
             endpoint |-> EnvOr(env, "DYNAMODB_LOCAL_ENDPOINT", "http://localhost:8000")]
       ELSE [mode |-> "remote",
             region |-> EnvOr(env, "AWS_REGION", "us-east-1"),
             credentials |-> [accessKeyId |-> EnvOr(env, "AWS_ACCESS_KEY_ID", ""),
                              secretAccessKey |-> EnvOr(env, "AWS_SECRET_ACCESS_KEY", "")]]

\* The clientConfig passed to new DynamoDBClient.
createDynamoDBClient(config) ==
    LET region == [region |-> config.region]
        local == IF config.mode = "local" /\ "endpoint" \in DOMAIN config /\ config.endpoint # ""
                 THEN [endpoint |-> config.endpoint,
                       credentials |-> [accessKeyId |-> "dummy", secretAccessKey |-> "dummy"]]
                 ELSE NoRec
        remote == IF config.mode = "remote" /\ "credentials" \in DOMAIN config
                  THEN [credentials |-> config.credentials]
                  ELSE NoRec
    IN remote @@ local @@ region

\* The plugin at the start of the server.
dynamoDBPlugin(env) ==
    /\ nreq < MaxRequests
    /\ nreq' = nreq + 1
    /\ last' = [op |-> "createDynamoDBClient", lift |-> "", metadata |-> "", req |-> env,
                status |-> 0, body |-> createDynamoDBClient(getDynamoDBConfig(env)),
                calls |-> 0, error |-> NoRec]
    /\ UNCHANGED <<store, lastWrite, walk, pending>>

EnvChoices(name, values) == {NoRec} \cup {[a \in {name} |-> v] : v \in values}

Environments ==
    {m @@ lr @@ ep @@ ar @@ id @@ sk :
        m \in EnvChoices("DYNAMODB_MODE", {"", "local", "remote", "production"}),
        lr \in EnvChoices("DYNAMODB_LOCAL_REGION", {"eu-west-1"}),
        ep \in EnvChoices("DYNAMODB_LOCAL_ENDPOINT", {"", "http://dynamodb:8000"}),
        ar \in EnvChoices("AWS_REGION", {"eu-west-1"}),
        id \in EnvChoices("AWS_ACCESS_KEY_ID", {"AKIAEXAMPLE"}),
        sk \in EnvChoices("AWS_SECRET_ACCESS_KEY", {"", "secret"})}

NextClient == \E env \in Environments : dynamoDBPlugin(env)

SpecClient == Init /\ [][NextClient]_vars

----------------------------------------------------------------------------
(* The ten routes together, from the empty table: the writes of Spec and   *)
(* the three reads, each read with one of LimitChoices as its query.       *)

NextAll ==
    \/ \E body \in PostStaticBodies, out \in StoreOutcomes : PostStatic(body, out)
    \/ \E body \in PostDynamicBodies, out \in StoreOutcomes : PostDynamic(body, out)
    \/ \E body \in PostResortBodies, out \in StoreOutcomes : PostResort(body, out)
    \/ \E k \in Keys, out \in StoreOutcomes : GetOne(k[1], k[2], out)
    \/ \E lift \in LiftNames, body \in PutStaticBodies, out \in StoreOutcomes : PutStatic(lift, body, out)
    \/ \E k \in PutDynamicKeys, body \in PutDynamicBodies, out \in StoreOutcomes :
            PutDynamic(k[1], k[2], body, out)
    \/ \E k \in Keys, out \in StoreOutcomes : DeleteOne(k[1], k[2], out)
    \/ \E lift \in LiftNames, query \in LimitChoices, out \in StoreOutcomes, atEnd \in BOOLEAN :
            GetByLift(lift, query, out, atEnd)
    \/ \E query \in LimitChoices, out \in StoreOutcomes, atEnd \in BOOLEAN : ListAll(query, out, atEnd)
    \/ \E lift \in LiftNames :
            \E order \in IndexOrders(store, lift, ScanIndexForward) :
                \E query \in LimitChoices, out \in StoreOutcomes, atEnd \in BOOLEAN :
                    GetByRiders(lift, query, out, order, atEnd)

SpecAll == Init /\ [][NextAll]_vars

----------------------------------------------------------------------------
(* Claims checked under Spec.                                              *)

CreateOps == {"createStaticData", "createDynamicData", "createResortData"}
UpdateOps == {"updateStaticData", "updateDynamicData"}
LastKey == <<last.lift, last.metadata>>

\* The create input with the field the service assigns set, whatever it carried.
Assigned(op, req) ==
    IF op = "createStaticData" THEN [Metadata |-> STATIC] @@ req
    ELSE IF op = "createResortData" THEN [Lift |-> RESORT] @@ req
    ELSE req

\* C1: a successful create returns the input with only the service-assigned field
\* set (Metadata = "Static Data" for a static create, Lift = "Resort Data" for a
\* resort create, whatever the input carried), and the table holds that same
\* record under its key.
C1_CreateReturnsInput ==
    (last.op \in CreateOps /\ last.status = 201) =>
        /\ last.body = Assigned(last.op, last.req)
        /\ KeyOf(last.body) \in DOMAIN store
        /\ store[KeyOf(last.body)] = last.body

C1_Witness ==
    /\ last.op = "createResortData"
    /\ last.status = 201
    /\ "Lift" \in DOMAIN last.req
    /\ last.req.Lift # RESORT
    /\ last.body.Lift = RESORT

\* C2: when the last write to a key is a create, getSkiLift on the key returns
\* exactly the item the create wrote, also when the create replaced another item.
C2_GetAfterCreate ==
    (/\ last.op = "getSkiLift"
     /\ last.status # 500
     /\ lastWrite[LastKey].op = "create") =>
        /\ last.status = 200
        /\ last.body = lastWrite[LastKey].item

C2_Witness ==
    /\ last.op = "getSkiLift"
    /\ last.status = 200
    /\ lastWrite[LastKey].op = "create"
    /\ DOMAIN lastWrite[LastKey].prev # {}
    /\ (DOMAIN lastWrite[LastKey].prev) \ (DOMAIN last.body) # {}

\* C3: when the last write to a key is a delete, getSkiLift on the key raises
\* not-found, whether or not the key held an item before the delete.
C3_GetAfterDelete ==
    (/\ last.op = "getSkiLift"
     /\ last.status # 500
     /\ lastWrite[LastKey].op = "delete") =>
        /\ last.status = 404
        /\ last.body.error.code = "NOT_FOUND"

C3_Witness ==
    /\ last.op = "getSkiLift"
    /\ last.status = 404
    /\ lastWrite[LastKey].op = "delete"
    /\ DOMAIN lastWrite[LastKey].prev # {}

C3_WitnessAbsent ==
    /\ last.op = "getSkiLift"
    /\ last.status = 404
    /\ lastWrite[LastKey].op = "delete"
    /\ DOMAIN lastWrite[LastKey].prev = {}

\* The request handled by this step is an update whose body passes the schema and
\* names no field of the shape.
EmptyUpdateStep ==
    /\ nreq' = nreq + 1
    /\ \/ last'.op = "updateStaticData" /\ updateStaticDataSchema(last'.req).ok
          /\ (DOMAIN last'.req) \cap StaticFields = {}
       \/ last'.op = "updateDynamicData" /\ updateDynamicDataSchema(last'.req).ok
          /\ (DOMAIN last'.req) \cap DynamicFields = {}

\* C4: an update with no field present is answered 500 with a storage failure,
\* issues no store call and leaves the table unchanged.
C4_EmptyUpdateFails ==
    [][EmptyUpdateStep =>
        /\ last'.status = 500
        /\ last'.body.error.code = "DYNAMODB_ERROR"
        /\ last'.body.error.message = <<"No fields to update">>
        /\ last'.calls = 0
        /\ store' = store
        /\ lastWrite' = lastWrite]_vars

C4_Witness ==
    /\ last.op = "updateStaticData"
    /\ DOMAIN last.req = {}
    /\ last.status = 500
    /\ last.calls = 0
    /\ <<last.lift, STATIC>> \in DOMAIN store

\* C6: every key that holds an item got it from a create not followed by a delete.
C6_OnlyCreatesMakeRecords ==
    \A k \in DOMAIN store : lastWrite[k].created

\* C7: a record a create made under Metadata = "Static Data" carries only static
\* fields, and one made under another Metadata carries no static field.
C7_NoCrossShape ==
    \A k \in DOMAIN store :
        lastWrite[k].created =>
            IF k[2] = STATIC
            THEN DOMAIN store[k] \subseteq {"Lift", "Metadata"} \cup StaticFields
            ELSE (DOMAIN store[k]) \cap StaticFields = {}

----------------------------------------------------------------------------
(* Claims checked under SpecUpdate.                                        *)

ShapeFields(op) == IF op = "updateStaticData" THEN StaticFields ELSE DynamicFields

\* C5: an update of a record that exists, with a non-empty subset S of the fields
\* of its shape, returns and stores the previous item with exactly the fields of
\* S replaced by the values supplied; Lift, Metadata and the fields outside S
\* keep their values.
C5_UpdateChangesOnlyS ==
    [][(/\ nreq' = nreq + 1
        /\ last'.op \in UpdateOps
        /\ last'.status = 200
        /\ <<last'.lift, last'.metadata>> \in DOMAIN store) =>
            LET key == <<last'.lift, last'.metadata>>
                old == store[key]
                S == (DOMAIN last'.req) \cap ShapeFields(last'.op)
                new == last'.body
            IN /\ S # {}
               /\ store'[key] = new
               /\ DOMAIN new = (DOMAIN old) \cup S
               /\ \A a \in S : new[a] = last'.req[a]
               /\ \A a \in (DOMAIN old) \ S : new[a] = old[a]
               /\ new.Lift = old.Lift /\ new.Metadata = old.Metadata]_vars

C5_Witness ==
    /\ last.op = "updateDynamicData"
    /\ last.status = 200
    /\ Cardinality(DOMAIN last.req) = 2
    /\ lastWrite[LastKey].op = "update"
    /\ DynamicFields \subseteq DOMAIN lastWrite[LastKey].prev
    /\ last.body # lastWrite[LastKey].prev
    /\ \E a \in DynamicFields \ DOMAIN last.req :
            last.body[a] = lastWrite[LastKey].prev[a] /\ last.body[a] # DynamicB[a]

----------------------------------------------------------------------------
(* Claims checked under SpecQuery.                                         *)

QueryAnswered == last.op = "queryByRiders" /\ last.status = 200

\* The rider counts a query admits, case by case of the bounds it carries.
Admits(q, n) ==
    IF "minRiders" \in DOMAIN q /\ "maxRiders" \in DOMAIN q THEN q.minRiders <= n /\ n <= q.maxRiders
    ELSE IF "minRiders" \in DOMAIN q THEN n >= q.minRiders
    ELSE IF "maxRiders" \in DOMAIN q THEN n <= q.maxRiders
    ELSE TRUE

Admitted ==
    {k \in DOMAIN store : /\ k[1] = last.lift
                          /\ "TotalUniqueLiftRiders" \in DOMAIN store[k]
                          /\ Admits(last.req, store[k].TotalUniqueLiftRiders)}

\* C8: a query by riders returns entries of the lift asked for only, each once
\* and with the rider count stored, all within the bounds supplied (a bound of 0
\* is a bound), and as many of the admitted entries as the limit allows: every
\* one of them when they fit.
C8_RiderBounds ==
    QueryAnswered =>
        LET items == last.body.items
            limit == IF "limit" \in DOMAIN last.req THEN last.req.limit ELSE 20
        IN /\ \A i \in 1..Len(items) :
                /\ items[i].Lift = last.lift
                /\ KeyOf(items[i]) \in Admitted
                /\ items[i].TotalUniqueLiftRiders = store[KeyOf(items[i])].TotalUniqueLiftRiders
           /\ \A i, j \in 1..Len(items) : i # j => KeyOf(items[i]) # KeyOf(items[j])
           /\ Len(items) = Min(limit, Cardinality(Admitted))
           /\ last.body.count = Len(items)

C8_Witness ==
    /\ QueryAnswered
    /\ DOMAIN last.req = {"maxRiders"}
    /\ last.req.maxRiders = 0
    /\ Len(last.body.items) = 1
    /\ Cardinality(IndexKeys(store, last.lift)) = 3

\* C9 as claimed: each returned item has a strictly greater rider count than the next.
C9_StrictlyDescending ==
    QueryAnswered =>
        \A i \in 1..(Len(last.body.items) - 1) :
            last.body.items[i].TotalUniqueLiftRiders > last.body.items[i + 1].TotalUniqueLiftRiders

\* C9 amended: the returned items are in descending order of rider count, equal
\* counts allowed: no item has a smaller rider count than the next.
C9_Descending ==
    QueryAnswered =>
        \A i \in 1..(Len(last.body.items) - 1) :
            last.body.items[i].TotalUniqueLiftRiders >= last.body.items[i + 1].TotalUniqueLiftRiders

C9_Witness ==
    /\ QueryAnswered
    /\ Len(last.body.items) = 3
    /\ last.body.items[1].TotalUniqueLiftRiders > last.body.items[2].TotalUniqueLiftRiders
    /\ last.body.items[2].TotalUniqueLiftRiders = last.body.items[3].TotalUniqueLiftRiders

----------------------------------------------------------------------------
(* Claims checked under SpecList.                                          *)

StoredItems == {store[k] : k \in DOMAIN store}

PageWithinLimit ==
    (last.op = "listSkiLifts" /\ last.status = 200) =>
        /\ Len(last.body.items) <= (IF "limit" \in DOMAIN last.req THEN last.req.limit ELSE 20)
        /\ last.body.count = Len(last.body.items)

WalkSound ==
    walk.active =>
        /\ \A i \in 1..Len(walk.seen) : walk.seen[i] \in StoredItems
        /\ \A i, j \in 1..Len(walk.seen) : i # j => walk.seen[i] # walk.seen[j]
        /\ Len(walk.seen) < Cardinality(DOMAIN store) => DOMAIN walk.cursor # {}
        /\ DOMAIN walk.cursor = {} => {walk.seen[i] : i \in 1..Len(walk.seen)} = StoredItems

\* C10 as claimed: at most limit items per page, a cursor exactly when more
\* records remain, and the pages followed until no cursor comes back hold every
\* stored record exactly once.
C10_CursorExactlyWhenMore ==
    /\ PageWithinLimit
    /\ WalkSound
    /\ walk.active => (DOMAIN walk.cursor # {} => Len(walk.seen) < Cardinality(DOMAIN store))

\* C10 amended: at most limit items per page; a cursor whenever more records
\* remain (a page that ends exactly at the last record may carry one too); the
\* pages followed until no cursor comes back hold every stored record exactly once.
C10_Pagination == PageWithinLimit /\ WalkSound

C10_Witness ==
    /\ walk.active
    /\ walk.pages >= 2
    /\ DOMAIN walk.cursor = {}
    /\ Len(walk.seen) >= 3
    /\ last.op = "listSkiLifts"
    /\ last.status = 200
    /\ Len(last.body.items) >= 1

----------------------------------------------------------------------------
(* Claims on failed requests, checked under Spec.                          *)

\* The status a request must get: 400 when its input fails the schema; else 500
\* when it is an update naming no field or when the store rejects the command;
\* else 404 when it is a point get of a key holding no item; else the success
\* code of the route.
StatusIs(valid, empty, failed, absent, success) ==
    last'.status = IF ~valid THEN 400
                   ELSE IF empty \/ failed THEN 500
                   ELSE IF absent THEN 404
                   ELSE success

\* C11: each request gets the status of its error kind: 404 exactly when a point
\* get finds no item, 400 exactly when the input fails its schema, 500 whenever
\* the store call fails, and a success status only when nothing failed.
C11_StatusOfErrorKind ==
    [][\A out \in StoreOutcomes :
        LET failed == DOMAIN out # {}
            body == last'.req
            lift == last'.lift
            metadata == last'.metadata
        IN /\ (last'.op = "createStaticData" /\ PostStatic(body, out)) =>
                StatusIs(createStaticDataSchema(body).ok, FALSE, failed, FALSE, 201)
           /\ (last'.op = "createDynamicData" /\ PostDynamic(body, out)) =>
                StatusIs(createDynamicDataSchema(body).ok, FALSE, failed, FALSE, 201)
           /\ (last'.op = "createResortData" /\ PostResort(body, out)) =>
                StatusIs(createResortDataSchema(body).ok, FALSE, failed, FALSE, 201)
           /\ (last'.op = "getSkiLift" /\ GetOne(lift, metadata, out)) =>
                StatusIs(TRUE, FALSE, failed, <<lift, metadata>> \notin DOMAIN store, 200)
           /\ (last'.op = "updateStaticData" /\ PutStatic(lift, body, out)) =>
                StatusIs(updateStaticDataSchema(body).ok,
                         (DOMAIN body) \cap StaticFields = {}, failed, FALSE, 200)
           /\ (last'.op = "updateDynamicData" /\ PutDynamic(lift, metadata, body, out)) =>
                StatusIs(updateDynamicDataSchema(body).ok,
                         (DOMAIN body) \cap DynamicFields = {}, failed, FALSE, 200)
           /\ (last'.op = "deleteSkiLift" /\ DeleteOne(lift, metadata, out)) =>
                StatusIs(TRUE, FALSE, failed, FALSE, 204)]_vars

C11_Witness ==
    /\ last.op = "getSkiLift"
    /\ last.status = 404
    /\ last.calls = 1
    /\ lastWrite[LastKey].op = "none"
    /\ store # NoRec

C11_WitnessInvalid ==
    /\ last.op = "updateDynamicData"
    /\ last.status = 400
    /\ last.calls = 0

C11_WitnessStoreFailure ==
    /\ last.op = "deleteSkiLift"
    /\ last.status = 500
    /\ last.calls = 1
    /\ LastKey \in DOMAIN store

\* This step is one of the seven routes of Next handling the request recorded in
\* last', with out as the outcome of its store call.
Handled(out) ==
    \/ last'.op = "createStaticData" /\ PostStatic(last'.req, out)
    \/ last'.op = "createDynamicData" /\ PostDynamic(last'.req, out)
    \/ last'.op = "createResortData" /\ PostResort(last'.req, out)
    \/ last'.op = "getSkiLift" /\ GetOne(last'.lift, last'.metadata, out)
    \/ last'.op = "updateStaticData" /\ PutStatic(last'.lift, last'.req, out)
    \/ last'.op = "updateDynamicData" /\ PutDynamic(last'.lift, last'.metadata, last'.req, out)
    \/ last'.op = "deleteSkiLift" /\ DeleteOne(last'.lift, last'.metadata, out)

\* C12: a store call that fails surfaces as a storage failure: not as the error
\* of the store, not as a success, not as not-found, and the table is left as it
\* was.  Not-found is raised only by getSkiLift when the store call succeeds and
\* returns no item, and then it is raised as not-found, not as a storage failure.
C12_StoreFailureSurfaces ==
    [][\A out \in StoreOutcomes :
        Handled(out) =>
            /\ DOMAIN out # {} =>
                    /\ last'.error.class = "DynamoDBError"
                    /\ last'.error # out
                    /\ last'.error.message # out.message
                    /\ last'.status = 500
                    /\ last'.body.error.code = "DYNAMODB_ERROR"
                    /\ store' = store
            /\ (DOMAIN last'.error # {} /\ last'.error.class = "NotFoundError") <=>
                    /\ last'.op = "getSkiLift"
                    /\ DOMAIN out = {}
                    /\ <<last'.lift, last'.metadata>> \notin DOMAIN store]_vars

C12_Witness ==
    /\ last.op = "getSkiLift"
    /\ last.calls = 1
    /\ last.error.class = "DynamoDBError"
    /\ last.error.stack = "ResourceNotFoundException"
    /\ LastKey \notin DOMAIN store

C12_WitnessNotFound ==
    /\ last.op = "getSkiLift"
    /\ last.calls = 1
    /\ last.error.class = "NotFoundError"
    /\ last.body.error.code = "NOT_FOUND"

\* C13: a request answered 400 issued no store operation and left the table as
\* it was: the input is validated before the service is called.
C13_ValidationBeforeService ==
    [][(nreq' = nreq + 1 /\ last'.status = 400) =>
        /\ last'.calls = 0
        /\ store' = store
        /\ lastWrite' = lastWrite]_vars

C13_Witness ==
    /\ last.op = "updateStaticData"
    /\ last.status = 400
    /\ last.calls = 0
    /\ <<last.lift, STATIC>> \in DOMAIN store
    /\ "VerticalFeet" \in DOMAIN last.req
    /\ store[<<last.lift, STATIC>>].VerticalFeet # last.req.VerticalFeet

\* C14: the storage failure raised for a failed store call carries the error of
\* the store as its cause: the error has a cause, and it is that error.
C14_CauseCarried ==
    [][\A out \in StoreErrors :
        Handled(out) =>
            /\ last'.error.class = "DynamoDBError"
            /\ "cause" \in DOMAIN last'.error
            /\ last'.error.cause = out]_vars

\* C15: the response to a storage failure does not depend on the error of the
\* store: had the store rejected the command of the same request, in the same
\* state, with any other error, status and body would be the same.
C15_ResponseIndependentOfStoreError ==
    [][\A e1 \in StoreErrors :
        (last'.calls = 1 /\ Handled(e1)) =>
            LET r1 == HandlerResult(last'.op, last'.lift, last'.metadata, last'.req, e1)
            IN /\ ~r1.ok /\ r1.value = last'.error
               /\ HandlerError(r1.value) = [status |-> last'.status, body |-> last'.body]
               /\ \A e2 \in StoreErrors :
                    LET r2 == HandlerResult(last'.op, last'.lift, last'.metadata, last'.req, e2)
                    IN /\ ~r2.ok
                       /\ HandlerError(r2.value) = [status |-> last'.status, body |-> last'.body]]_vars

C15_Witness ==
    /\ last.op = "createStaticData"
    /\ last.calls = 1
    /\ last.status = 500
    /\ last.error.stack = "ResourceNotFoundException"
    /\ last.body.error.message = <<"Failed to create static data">>

\* C16: the body of every error response is {error: {message, code, statusCode}},
\* code being optional, with no other field, and error.statusCode is the status
\* of the response.
C16_ErrorEnvelope ==
    DOMAIN last.error # {} =>
        /\ DOMAIN last.body = {"error"}
        /\ {"message", "statusCode"} \subseteq DOMAIN last.body.error
        /\ DOMAIN last.body.error \subseteq {"message", "code", "statusCode"}
        /\ last.body.error.statusCode = last.status

\* C17: a delete whose store call succeeds is answered 204 with an empty body
\* whether or not the key held an item; afterwards the key holds none and every
\* other key holds what it held, so a delete of a key that holds no item (a
\* second delete) changes nothing.  A delete fails only when the store call
\* fails, and then the table is unchanged.
C17_DeleteIdempotent ==
    [][\A out \in StoreOutcomes :
        (last'.op = "deleteSkiLift" /\ DeleteOne(last'.lift, last'.metadata, out)) =>
            LET key == <<last'.lift, last'.metadata>>
            IN IF DOMAIN out = {}
               THEN /\ last'.status = 204
                    /\ last'.body = NoRec
                    /\ DOMAIN last'.error = {}
                    /\ DOMAIN store' = (DOMAIN store) \ {key}
                    /\ \A k \in DOMAIN store' : store'[k] = store[k]
                    /\ key \notin DOMAIN store => store' = store
               ELSE /\ last'.status = 500
                    /\ store' = store]_vars

C17_Witness ==
    /\ last.op = "deleteSkiLift"
    /\ last.status = 204
    /\ lastWrite[LastKey].op = "delete"
    /\ DOMAIN lastWrite[LastKey].prev = {}
    /\ nreq >= 2
    /\ store # NoRec

\* C18: every item of the table carries, as Lift and Metadata, the key it is
\* stored under: creates store an item under its own key, and an update writes
\* neither attribute, whatever its body carries.
C18_KeyAttributesFixed ==
    \A k \in DOMAIN store : store[k].Lift = k[1] /\ store[k].Metadata = k[2]

C18_Witness ==
    /\ last.op = "updateDynamicData"
    /\ last.status = 200
    /\ {"Lift", "Metadata"} \subseteq DOMAIN last.req
    /\ last.req.Lift # last.lift
    /\ last.req.Metadata # last.metadata
    /\ lastWrite[LastKey].created
    /\ store[LastKey].LiftStatus = last.req.LiftStatus

----------------------------------------------------------------------------
(* Claims checked under SpecRead.                                          *)

LiftAnswered == last.op = "queryLiftData" /\ last.status = 200

LiftKeys == {k \in DOMAIN store : k[1] = last.lift}

\* The limit a read request asks for: its own, or 20 when it carries none.
AskedLimit == IF "limit" \in DOMAIN last.req THEN last.req.limit ELSE 20

\* Items of the lift only, each as stored, at most limit of them and as many as
\* the lift has when they fit, with the key of the last item as cursor when
\* items remain.
LiftPage ==
    LET items == last.body.items
    IN /\ \A i \in 1..Len(items) :
            /\ items[i].Lift = last.lift
            /\ KeyOf(items[i]) \in DOMAIN store
            /\ items[i] = store[KeyOf(items[i])]
       /\ Len(items) = Min(AskedLimit, Cardinality(LiftKeys))
       /\ last.body.count = Len(items)
       /\ Len(items) < Cardinality(LiftKeys) =>
            /\ "lastEvaluatedKey" \in DOMAIN last.body
            /\ last.body.lastEvaluatedKey = KeyRecord(KeyOf(items[Len(items)]))

\* C19 as claimed: the page is in ascending Metadata order with the "Static Data"
\* record before every date-keyed record.
C19_StaticDataFirst ==
    LiftAnswered =>
        /\ LiftPage
        /\ \A i, j \in 1..Len(last.body.items) :
                i < j => \/ /\ last.body.items[i].Metadata = STATIC
                            /\ last.body.items[j].Metadata \in Dates
                         \/ /\ last.body.items[i].Metadata = "01/01/20"
                            /\ last.body.items[j].Metadata = "01/02/20"

\* C19 amended: the page is in ascending Metadata order, the order of the bytes
\* of the strings: the date-keyed records by ascending date string, and the
\* "Static Data" record after every date-keyed record.
C19_StaticDataLast ==
    LiftAnswered =>
        /\ LiftPage
        /\ \A i, j \in 1..Len(last.body.items) :
                i < j => \/ /\ last.body.items[i].Metadata \in Dates
                            /\ last.body.items[j].Metadata = STATIC
                         \/ /\ last.body.items[i].Metadata = "01/01/20"
                            /\ last.body.items[j].Metadata = "01/02/20"

C19_Witness ==
    /\ LiftAnswered
    /\ Cardinality(LiftKeys) = 3
    /\ Len(last.body.items) = 2
    /\ last.body.items[1].Metadata = "01/01/20"
    /\ last.body.items[2].Metadata = "01/02/20"
    /\ last.body.lastEvaluatedKey.Metadata = "01/02/20"

C19_WitnessWhole ==
    /\ LiftAnswered
    /\ "limit" \notin DOMAIN last.req
    /\ Len(last.body.items) = 3
    /\ last.body.items[3].Metadata = STATIC
    /\ "lastEvaluatedKey" \notin DOMAIN last.body

ReadOps == {"queryLiftData", "listSkiLifts", "queryByRiders"}

\* C20: on the three read endpoints a limit below 1 or above 100 is answered 400
\* without a store call, so that a store call is issued only with a Limit in
\* [1, 100] (the limit asked for, or 20 when none is).
C20_LimitInRange ==
    last.op \in ReadOps =>
        LET asked == "limit" \in DOMAIN last.req
            below == asked /\ last.req.limit < 1
            above == asked /\ IF Whole(last.req) THEN last.req.limit > 100 ELSE last.req.limit >= 100
        IN /\ (below \/ above) => (last.status = 400 /\ last.calls = 0)
           /\ last.calls = 1 => (~below /\ ~above)

----------------------------------------------------------------------------
(* Claims on the fields of an update, checked under SpecUpdate.            *)

\* The fields of an update body that carry a value JavaScript holds for false.
FalsyFields(req) ==
    {a \in (DOMAIN req) \cap {"TotalUniqueLiftRiders", "AverageSnowCoverageInches"} : req[a] = 0}
        \cup {a \in (DOMAIN req) \cap {"ExperiencedRidersOnly"} : ~req[a]}

\* C21: an update supplying 0 for TotalUniqueLiftRiders or
\* AverageSnowCoverageInches, or false for ExperiencedRidersOnly, is sent to the
\* store (it is not the empty update) and, when the store accepts it, the record
\* holds that value; the fields the update does not supply keep their values.
C21_PresenceNotTruthiness ==
    [][(/\ nreq' = nreq + 1
        /\ last'.op \in UpdateOps
        /\ last'.status # 400
        /\ FalsyFields(last'.req) \cap ShapeFields(last'.op) # {}) =>
            LET key == <<last'.lift, last'.metadata>>
            IN /\ last'.calls = 1
               /\ last'.status = 200 =>
                    /\ \A a \in FalsyFields(last'.req) \cap ShapeFields(last'.op) :
                            a \in DOMAIN store'[key] /\ store'[key][a] = last'.req[a]
                    /\ key \in DOMAIN store =>
                            \A a \in (DOMAIN store[key]) \ (DOMAIN last'.req) :
                                a \in DOMAIN store'[key] /\ store'[key][a] = store[key][a]]_vars

C21_Witness ==
    /\ last.op = "updateDynamicData"
    /\ last.status = 200
    /\ DOMAIN last.req = {"TotalUniqueLiftRiders"}
    /\ last.req.TotalUniqueLiftRiders = 0
    /\ lastWrite[LastKey].prev = KeyRecord(LastKey) @@ DynamicA
    /\ store[LastKey] = [lastWrite[LastKey].prev EXCEPT !.TotalUniqueLiftRiders = 0]

C21_WitnessFalse ==
    /\ last.op = "updateStaticData"
    /\ last.status = 200
    /\ DOMAIN last.req = {"ExperiencedRidersOnly"}
    /\ lastWrite[LastKey].prev = KeyRecord(LastKey) @@ StaticB
    /\ ~store[LastKey].ExperiencedRidersOnly

----------------------------------------------------------------------------
(* Claims on the cursor of a listing, checked under SpecList.              *)

CursorSupplied == {"lastEvaluatedLift", "lastEvaluatedMetadata"} \subseteq DOMAIN last.req

\* Key k lies at or before the key (lift, metadata) in the order of the scan;
\* an empty sort key lies before every sort key of its partition.
AtOrBefore(k, lift, metadata) ==
    \/ Pos(PartitionOrder, k[1]) < Pos(PartitionOrder, lift)
    \/ /\ k[1] = lift
       /\ metadata # ""
       /\ Pos(SortKeyOrder, k[2]) <= Pos(SortKeyOrder, metadata)

\* The keys a listing answered with last.body must hold when it reads the keys
\* of after in the order of the scan: the first ones, as many as the limit allows.
ListedFrom(after) ==
    LET items == last.body.items
        listed == {KeyOf(items[i]) : i \in 1..Len(items)}
        limit == IF "limit" \in DOMAIN last.req THEN last.req.limit ELSE DefaultLimit
    IN /\ listed \subseteq after
       /\ Len(items) = Min(limit, Cardinality(after))
       /\ \A k \in listed, k2 \in after \ listed : KeyRank(k) < KeyRank(k2)

\* C22: a listing given both lastEvaluatedLift and lastEvaluatedMetadata, with
\* any string values the schema accepts, returns the records strictly after that
\* key; a listing lacking either of them returns the records from the beginning.
C22_ResumeAfterCursor ==
    (last.op = "listSkiLifts" /\ last.status = 200) =>
        IF CursorSupplied
        THEN ListedFrom({k \in DOMAIN store :
                            ~AtOrBefore(k, last.req.lastEvaluatedLift, last.req.lastEvaluatedMetadata)})
        ELSE ListedFrom(DOMAIN store)

----------------------------------------------------------------------------
(* Claims on the store calls of a request, checked under Spec.             *)

\* C23: a request issues at most one store call; when that call fails the
\* request is answered 500 at once, with no further call and no write.
C23_AtMostOneStoreCall ==
    [][\A out \in StoreOutcomes :
        Handled(out) =>
            /\ last'.calls \in {0, 1}
            /\ DOMAIN out # {} =>
                    /\ last'.calls = 1
                    /\ last'.status = 500
                    /\ DOMAIN last'.error # {}
                    /\ lastWrite' = lastWrite]_vars

C23_Witness ==
    /\ last.op = "createDynamicData"
    /\ last.calls = 1
    /\ last.status = 500
    /\ last.error.class = "DynamoDBError"
    /\ <<last.req.Lift, last.req.Metadata>> \notin DOMAIN store

----------------------------------------------------------------------------
(* Claims on all ten routes, checked under SpecAll.                        *)

ReadOnlyOps == {"getSkiLift", "queryLiftData", "listSkiLifts", "queryByRiders"}

\* The key the request l names: of a create, the key of the record its body
\* gives once the service set its field; else the key of the path.
OwnKeys(l) ==
    IF l.op \in CreateOps
    THEN LET rec == Assigned(l.op, l.req)
         IN IF {"Lift", "Metadata"} \subseteq DOMAIN rec THEN {<<rec.Lift, rec.Metadata>>} ELSE {}
    ELSE {<<l.lift, l.metadata>>}

\* C24: queryByRiders never returns a record whose Metadata is "Static Data".
C24_NoStaticByRiders ==
    QueryAnswered =>
        \A i \in 1..Len(last.body.items) : last.body.items[i].Metadata # STATIC

----------------------------------------------------------------------------
(* Claims on concurrent updates, checked under SpecConcurrent.             *)

SetFields(u) == (DOMAIN u.req) \cap ShapeFields(u.op)

\* C25: an update answered 200 has its values in the stored record whatever
\* the order the store executed the commands in, as long as every other update
\* under way or answered on the same record sets other fields: no update is lost.
C25_NoLostUpdate ==
    \A c \in DOMAIN pending :
        LET u == pending[c]
            key == <<u.lift, u.metadata>>
        IN (/\ u.pc = "done"
            /\ u.status = 200
            /\ \A d \in (DOMAIN pending) \ {c} :
                    (pending[d].lift = u.lift /\ pending[d].metadata = u.metadata)
                        => SetFields(pending[d]) \cap SetFields(u) = {}) =>
                /\ key \in DOMAIN store
                /\ \A a \in SetFields(u) : a \in DOMAIN store[key] /\ store[key][a] = u.req[a]

\* Two updates of one record, the one that arrived second executed first, both
\* answered 200, and the record differs from what either alone would have left.
C25_Witness ==
    /\ DOMAIN pending = Clients
    /\ pending.first.pc = "done" /\ pending.second.pc = "done"
    /\ pending.first.status = 200 /\ pending.second.status = 200
    /\ pending.first.lift = pending.second.lift
    /\ pending.first.metadata = pending.second.metadata
    /\ pending.first.op # pending.second.op
    /\ SetFields(pending.first) # {} /\ SetFields(pending.second) # {}
    /\ pending.first.arrived < pending.second.arrived
    /\ pending.first.settled > pending.second.settled
    /\ \A c \in Clients : \A a \in SetFields(pending[c]) :
            store[<<pending[c].lift, pending[c].metadata>>][a] = pending[c].req[a]

C25_WitnessSameRoute ==
    /\ DOMAIN pending = Clients
    /\ pending.first.pc = "done" /\ pending.second.pc = "done"
    /\ pending.first.status = 200 /\ pending.second.status = 200
    /\ pending.first.op = "updateDynamicData" /\ pending.second.op = "updateDynamicData"
    /\ pending.first.lift = pending.second.lift
    /\ pending.first.metadata = "01/01/20" /\ pending.second.metadata = "01/01/20"
    /\ SetFields(pending.first) = {"LiftStatus"}
    /\ SetFields(pending.second) = {"TotalUniqueLiftRiders", "AvalancheDanger"}
    /\ pending.first.settled > pending.second.settled
    /\ store[<<"Lift 1", "01/01/20">>].LiftStatus = pending.first.req.LiftStatus
    /\ store[<<"Lift 1", "01/01/20">>].TotalUniqueLiftRiders = pending.second.req.TotalUniqueLiftRiders

\* C26: a create, update or delete leaves every key other than its own as it
\* was (holding the same item, or none); getSkiLift, queryLiftData, listSkiLifts
\* and queryByRiders leave the whole table as it was.
C26_OwnKeyOnly ==
    [][nreq' = nreq + 1 =>
        IF last'.op \in ReadOnlyOps THEN store' = store
        ELSE \A k \in ((DOMAIN store) \cup (DOMAIN store')) \ OwnKeys(last') :
                k \in DOMAIN store /\ k \in DOMAIN store' /\ store'[k] = store[k]]_vars

C26_Witness ==
    /\ last.op = "deleteSkiLift"
    /\ last.status = 204
    /\ lastWrite[LastKey].op = "delete"
    /\ DOMAIN lastWrite[LastKey].prev # {}
    /\ \E k \in DOMAIN store : k[1] = last.lift

C26_WitnessRead ==
    /\ last.op = "queryByRiders"
    /\ last.status = 200
    /\ Len(last.body.items) >= 1
    /\ Cardinality(DOMAIN store) >= 2

----------------------------------------------------------------------------
(* Claims on the partition of the resort, checked under Spec.              *)

\* C27: every item stored under Lift = "Resort Data" has the resort shape:
\* OpenLifts present, no LiftStatus and no field of the static shape.
C27_ResortPartitionReserved ==
    \A k \in DOMAIN store :
        k[1] = RESORT =>
            /\ "OpenLifts" \in DOMAIN store[k]
            /\ "LiftStatus" \notin DOMAIN store[k]
            /\ (DOMAIN store[k]) \cap StaticFields = {}

----------------------------------------------------------------------------
(* Claims on the two query routes, checked under SpecPaging.               *)

QueryOps == {"queryLiftData", "queryByRiders"}

\* The arguments the two queries take: the limit and the bounds, no cursor.
QueryArgs(req) == Restrict(req, {"limit", "minRiders", "maxRiders"})

\* The page answered last starts at the first item of the lift in query order:
\* as many items as the limit allows, and no item left out comes before a
\* returned one (by sort key, or by rider count in descending order).
StartsAtFirst ==
    LET items == last.body.items
        listed == {KeyOf(items[i]) : i \in 1..Len(items)}
    IN IF last.op = "queryLiftData"
       THEN /\ listed \subseteq LiftKeys
            /\ Len(items) = Min(AskedLimit, Cardinality(LiftKeys))
            /\ \A k \in listed, k2 \in LiftKeys \ listed : KeyRank(k) < KeyRank(k2)
       ELSE /\ listed \subseteq Admitted
            /\ Len(items) = Min(AskedLimit, Cardinality(Admitted))
            /\ \A k \in listed, k2 \in Admitted \ listed :
                    store[k].TotalUniqueLiftRiders >= store[k2].TotalUniqueLiftRiders

\* No two entries of the lift in the index carry the same rider count.
NoTies ==
    \A k, k2 \in IndexKeys(store, last.lift) :
        k # k2 => store[k].TotalUniqueLiftRiders # store[k2].TotalUniqueLiftRiders

C28_WitnessRiders ==
    /\ QueryAnswered
    /\ nreq = MaxRequests
    /\ Cardinality(IndexKeys(store, last.lift)) = 3
    /\ NoTies
    /\ DOMAIN last.req = {"limit", "lastEvaluatedLift", "lastEvaluatedMetadata"}
    /\ last.req.limit = 1
    /\ Len(last.body.items) = 1
    /\ last.body.items[1].Metadata = last.req.lastEvaluatedMetadata

----------------------------------------------------------------------------
(* Claims on the store client, checked under SpecClient.                   *)

\* C29: the client built from the environment carries explicit credentials
\* (the dummy ones) and an endpoint override in local mode, and neither explicit
\* credentials nor an endpoint in remote mode.
C29_ExplicitOnlyInLocalMode ==
    last.op = "createDynamoDBClient" =>
        IF getDynamoDBConfig(last.req).mode = "local"
        THEN /\ {"credentials", "endpoint"} \subseteq DOMAIN last.body
             /\ last.body.credentials = [accessKeyId |-> "dummy", secretAccessKey |-> "dummy"]
             /\ last.body.endpoint = getDynamoDBConfig(last.req).endpoint
        ELSE /\ "credentials" \notin DOMAIN last.body
             /\ "endpoint" \notin DOMAIN last.body

====
